---- MODULE Spec2Model ----
(***************************************************************************)
(* Offline-first synchronisation and optimistic mutation layer of notton:  *)
(* the useNotes hook (in-memory notes/folders, optimistic mutations with   *)
(* snapshot rollback, the drain of the pending queue) over useOfflineCache *)
(* (the IndexedDB stores notes, folders and pending_sync) and the remote   *)
(* store; and the editor's useDebouncedCallback hook.                      *)
(*                                                                         *)
(* One action is one run of JavaScript between two suspension points: an   *)
(* event handler up to its first await on the network or on an IndexedDB   *)
(* transaction, or the continuation that runs when that await settles.     *)
(* A remote call is handled by the server and answered in one step; calls  *)
(* in flight are handled in any order.                                     *)
(***************************************************************************)
EXTENDS Integers, Sequences, FiniteSets, TLC

VARIABLES
  user,            \* useAuth().user: the signed-in user id, or NoUser
  online,          \* navigator.onLine, mirrored by the isOnline state
  clock,           \* Date.now(): time passes with every action of the user
  notes,           \* useState<Note[]>: the in-memory notes
  folders,         \* useState<Folder[]>: the in-memory folders
  loading,         \* useState(true)
  isSyncing,       \* useState(false)
  hasPendingSync,  \* useOfflineCache: useState(false)
  cachedNotes,     \* IndexedDB store "notes", keyPath id
  cachedFolders,   \* IndexedDB store "folders", keyPath id
  pending,         \* IndexedDB store "pending_sync", keyPath id
  remoteNotes,     \* remote table notes, by id
  remoteFolders,   \* remote table folders, by id
  nextId,          \* the remote store's id generator
  calls,           \* facade calls in flight, by issue time
  drains,          \* runs of syncPendingChanges in flight, by slot
  mount,           \* the mount effects' position (checkPending, loadData)
  debounced,       \* useDebouncedCallback: the refs of one debounced function
  last             \* observation: what the step just taken did

vars == <<user, online, clock, notes, folders, loading, isSyncing, hasPendingSync,
          cachedNotes, cachedFolders, pending, remoteNotes, remoteFolders, nextId,
          calls, drains, mount, debounced, last>>

----------------------------------------------------------------------------
(* Bounds of the model *)

MaxClock == 4
MaxIds == 4
MaxDrains == 2
MaxCalls == 4

(* Values *)

NoUser == "none"
Null == 0
EmptyStore == [k \in {} |-> Null]

(* Observations of a step: the facade call issued, queued, sent or settled, *)
(* or the queue entry a drain replayed.  Every other step leaves NoEvent.   *)
NoEvent ==
  [kind |-> "none", api |-> "", id |-> Null, seq |-> 0, ok |-> TRUE, issued |-> <<>>,
   item |-> EmptyStore]

Event(kind, api, id, seq, ok, issued, item) ==
  [kind |-> kind, api |-> api, id |-> id, seq |-> seq, ok |-> ok, issued |-> issued,
   item |-> item]

(* A slot of `drains` with no run of syncPendingChanges in it *)
IdleDrain == [pc |-> "idle", snap |-> <<>>, i |-> 0, synced |-> 0, mode |-> "none"]

NoteRow(id, title, deleted, deletedAt, at) ==
  [id |-> id, title |-> title, content |-> "c0", folder_id |-> Null,
   is_deleted |-> deleted, deleted_at |-> deletedAt,
   created_at |-> at, updated_at |-> at, user_id |-> "u1"]

FolderRow(id, name, icon, at, uid) ==
  [id |-> id, name |-> name, icon |-> icon, is_system |-> FALSE,
   created_at |-> at, updated_at |-> at, user_id |-> uid]

----------------------------------------------------------------------------
(* IndexedDB object stores with keyPath "id": put replaces the record under *)
(* the same key, getAll returns the records in key order.                   *)

Put(store, rec) ==
  [k \in DOMAIN store \cup {rec.id} |-> IF k = rec.id THEN rec ELSE store[k]]

Del(store, id) == [k \in DOMAIN store \ {id} |-> store[k]]

MinKey(S) == CHOOSE k \in S : \A j \in S : k <= j

RECURSIVE KeysAsc(_)
KeysAsc(S) == IF S = {} THEN <<>> ELSE <<MinKey(S)>> \o KeysAsc(S \ {MinKey(S)})

GetAll(store) == [i \in 1..Cardinality(DOMAIN store) |-> store[KeysAsc(DOMAIN store)[i]]]

RECURSIVE StoreOf(_)
StoreOf(rows) == IF rows = <<>> THEN EmptyStore ELSE Put(StoreOf(Tail(rows)), Head(rows))

(* Array helpers *)

Ids(rows) == {rows[i].id : i \in 1..Len(rows)}

Find(rows, id) == rows[CHOOSE i \in 1..Len(rows) : rows[i].id = id]

Without(rows, id) == SelectSeq(rows, LAMBDA r : r.id # id)

OwnedBy(rows, u) == SelectSeq(rows, LAMBDA r : r.user_id = u)

(* { ...row, ...updates } *)
Spread(row, updates) ==
  [f \in DOMAIN row |-> IF f \in DOMAIN updates THEN updates[f] ELSE row[f]]

(* Array.prototype.sort is stable: equal keys keep their order *)
RECURSIVE InsertDesc(_, _)
InsertDesc(sorted, x) ==
  IF sorted = <<>> THEN <<x>>
  ELSE IF Head(sorted).updated_at >= x.updated_at
       THEN <<Head(sorted)>> \o InsertDesc(Tail(sorted), x)
       ELSE <<x>> \o sorted

RECURSIVE SortUpdatedDesc(_)
SortUpdatedDesc(rows) ==
  IF rows = <<>> THEN <<>>
  ELSE InsertDesc(SortUpdatedDesc(SubSeq(rows, 1, Len(rows) - 1)), rows[Len(rows)])

RECURSIVE InsertAsc(_, _)
InsertAsc(sorted, x) ==
  IF sorted = <<>> THEN <<x>>
  ELSE IF Head(sorted).created_at <= x.created_at
       THEN <<Head(sorted)>> \o InsertAsc(Tail(sorted), x)
       ELSE <<x>> \o sorted

RECURSIVE SortCreatedAsc(_)
SortCreatedAsc(rows) ==
  IF rows = <<>> THEN <<>>
  ELSE InsertAsc(SortCreatedAsc(SubSeq(rows, 1, Len(rows) - 1)), rows[Len(rows)])

----------------------------------------------------------------------------
(* The remote store *)

SelectNotes(u) == SortUpdatedDesc(OwnedBy(GetAll(remoteNotes), u))

SelectFolders(u) == SortCreatedAsc(OwnedBy(GetAll(remoteFolders), u))

(* A remote store that acknowledges an update without storing it *)
UpdateDropped(table, id, data) == table

(* update(...).eq("id", id): a row that does not exist is no error *)
RemoteUpdate(table, id, data) ==
  IF id \in DOMAIN table THEN Put(table, Spread(table[id], data)) ELSE table

RemoteDelete(table, id) == Del(table, id)

----------------------------------------------------------------------------
(* useDebouncedCallback as the hook leaves it after the first render:       *)
(*   timeoutRef      timeoutRef.current is not null                         *)
(*   scheduled       the arguments the timer in flight will deliver, <<>>   *)
(*                   when no timer is scheduled or it was cleared           *)
(*   pendingArgsRef  pendingArgsRef.current, <<>> for null                  *)
(*   mounted         the component that holds the hook is mounted           *)
(* and, as observations, the arguments the callback was invoked with, the   *)
(* calls made since the last delivery or cancel, the number of calls and    *)
(* the operation of the step just taken.                                    *)
IdleDebounce ==
  [mounted |-> TRUE, timeoutRef |-> FALSE, scheduled |-> <<>>, pendingArgsRef |-> <<>>,
   invoked |-> <<>>, burst |-> <<>>, n |-> 0, op |-> "none"]

----------------------------------------------------------------------------
Init ==
  /\ user = "u1"
  /\ online \in BOOLEAN
  /\ clock = 2
  /\ notes = <<>>
  /\ folders = <<>>
  /\ loading = TRUE
  /\ isSyncing = FALSE
  /\ hasPendingSync = FALSE
  /\ cachedNotes = EmptyStore
  /\ cachedFolders = EmptyStore
  /\ pending = EmptyStore
  /\ remoteNotes = StoreOf(<<NoteRow(1, "t0", FALSE, Null, 1), NoteRow(2, "t0", TRUE, 2, 2)>>)
  /\ remoteFolders = StoreOf(<<FolderRow(3, "f0", "Folder", 1, "u1")>>)
  /\ nextId = 4
  /\ calls = EmptyStore
  /\ drains = [s \in 1..MaxDrains |-> IdleDrain]
  /\ mount = [pc |-> "start", nf |-> "none", ff |-> "none"]
  /\ debounced = IdleDebounce
  /\ last = NoEvent

----------------------------------------------------------------------------
(* fetchNotes / fetchFolders: what a fetch that ends with `outcome` leaves  *)
(* in memory and in the local store.  "ok": the select succeeded; "err":    *)
(* it failed and the cache is the fallback; "offline": navigator.onLine was *)
(* false at the call and the cache is read instead.                         *)

(* A fetch that goes to the remote store without looking at navigator.onLine *)
FetchIgnoresOffline(mode) ==
  IF mode \in {"cache", "remote"} THEN {"err"} \cup (IF online THEN {"ok"} ELSE {})
  ELSE {}

FetchOutcomes(mode) ==
  IF mode = "cache" THEN {"offline"}
  ELSE IF mode = "remote" THEN {"err"} \cup (IF online THEN {"ok"} ELSE {})
  ELSE {}

NotesAfterFetch(outcome) ==
  LET cached == GetAll(cachedNotes) IN
  CASE outcome = "ok" -> SelectNotes(user)
    [] outcome = "err" -> IF Len(cached) > 0 THEN OwnedBy(cached, user) ELSE notes
    [] outcome = "offline" ->
         IF Len(cached) > 0 THEN SortUpdatedDesc(OwnedBy(cached, user)) ELSE notes

(* cacheNotes: clear, then put every fetched row *)
CacheAfterFetch(outcome) ==
  IF outcome = "ok" THEN StoreOf(SelectNotes(user)) ELSE cachedNotes

FoldersAfterFetch(outcome) ==
  LET cached == GetAll(cachedFolders) IN
  CASE outcome = "ok" -> SelectFolders(user)
    [] outcome = "err" -> IF Len(cached) > 0 THEN OwnedBy(cached, user) ELSE folders
    [] outcome = "offline" ->
         IF Len(cached) > 0 THEN SortCreatedAsc(OwnedBy(cached, user)) ELSE folders

FolderCacheAfterFetch(outcome) ==
  IF outcome = "ok" THEN StoreOf(SelectFolders(user)) ELSE cachedFolders

(* the toast.error calls of a fetch (lines 75-80, 113-118): only the error  *)
(* branch shows a notice, which one depends on whether the cache has rows   *)
FetchToastErrors(outcome, api, cache) ==
  IF outcome # "err" THEN <<>>
  ELSE IF DOMAIN cache # {} THEN <<"Using cached data - couldn't reach server">>
  ELSE IF api = "notes" THEN <<"Failed to fetch notes">>
  ELSE <<"Failed to fetch folders">>

(* fetchNotes up to its first await: which source it reads *)
FetchMode(on) == IF user = NoUser THEN "done" ELSE IF on THEN "remote" ELSE "cache"

----------------------------------------------------------------------------
(* syncPendingChanges *)

FreeSlots(dr) == {s \in DOMAIN dr : dr[s].pc = "idle"}

Draining == {s \in DOMAIN drains : drains[s].pc = "loop"}

(* lines 130-133: the early returns *)
WouldDrain(on, pend) == user # NoUser /\ on /\ DOMAIN pend # {}

(* A call of syncPendingChanges (when `called`) on top of drains `dr`, with  *)
(* the queue `pend` and isSyncing `syncing` the rest of the step leaves.     *)
SyncPendingChanges(called, on, pend, dr, syncing) ==
  IF called /\ WouldDrain(on, pend)
  THEN /\ FreeSlots(dr) # {}
       /\ drains' = [dr EXCEPT ![MinKey(FreeSlots(dr))] =
                       [pc |-> "loop", snap |-> GetAll(pend), i |-> 1,
                        synced |-> 0, mode |-> "none"]]
       /\ isSyncing' = TRUE
  ELSE /\ drains' = dr
       /\ isSyncing' = syncing

(* lines 138-160: which queue entries the loop sends to the remote store *)
Dispatched(item) == item.type = "note" /\ item.action \in {"update", "delete"}

(* A replay that sends nothing to the remote store *)
ReplayNothing(item) == remoteNotes

ReplayRemote(item) ==
  IF item.action = "update" THEN RemoteUpdate(remoteNotes, item.id, item.data)
  ELSE RemoteDelete(remoteNotes, item.id)

(* clearPendingSync lines 212-213, checkPending: remaining.length > 0 *)
HasRemaining(pend) == DOMAIN pend # {}

(* A clear that empties the whole queue *)
ClearEverything(pend, id) == EmptyStore

(* clearPendingSync: delete by key, then hasPendingSync from what remains *)
ClearPendingSync(pend, id) == Del(pend, id)

(* A loop exit that fetches whatever the count *)
ReconcileAlways(syncedCount) == TRUE

(* line 168: if (syncedCount > 0) *)
Reconcile(syncedCount) == syncedCount > 0

(* One turn of the loop for the entry at the drain's position; `ok`: the   *)
(* remote call succeeded.  After the last entry the loop's exit runs in the *)
(* same step: setIsSyncing(false), and fetchNotes() if anything was synced. *)
DrainItem(s, ok) ==
  /\ drains[s].pc = "loop"
  /\ ok => online
  /\ LET d == drains[s]
         item == d.snap[d.i]
         sent == Dispatched(item)
         done == sent /\ ok
         synced == IF done THEN d.synced + 1 ELSE d.synced
         atEnd == d.i = Len(d.snap)
     IN /\ sent \/ ~ok
        /\ remoteNotes' = IF done THEN ReplayRemote(item) ELSE remoteNotes
        /\ pending' = IF done THEN ClearPendingSync(pending, item.id) ELSE pending
        /\ hasPendingSync' = IF done THEN HasRemaining(pending') ELSE hasPendingSync
        /\ drains' = [drains EXCEPT ![s] =
             IF ~atEnd THEN [d EXCEPT !.i = d.i + 1, !.synced = synced]
             ELSE IF Reconcile(synced) /\ FetchMode(online) # "done"
                  THEN [d EXCEPT !.pc = "fetch", !.synced = synced, !.mode = FetchMode(online)]
                  ELSE IdleDrain]
        /\ isSyncing' = IF atEnd THEN FALSE ELSE isSyncing
  /\ debounced' = debounced
  /\ last' = Event("replay", drains[s].snap[drains[s].i].action,
                   drains[s].snap[drains[s].i].id, s, ok, <<>>, drains[s].snap[drains[s].i])
  /\ UNCHANGED <<user, online, clock, notes, folders, loading, cachedNotes,
                 cachedFolders, remoteFolders, nextId, calls, mount>>

(* line 170: the fetchNotes() after the loop settles *)
DrainFetch(s, outcome) ==
  /\ drains[s].pc = "fetch"
  /\ outcome \in FetchOutcomes(drains[s].mode)
  /\ notes' = NotesAfterFetch(outcome)
  /\ cachedNotes' = CacheAfterFetch(outcome)
  /\ drains' = [drains EXCEPT ![s] = IdleDrain]
  /\ debounced' = debounced
  /\ last' = Event("fetch", "notes", Null, s, outcome # "err", notes,
                   [toastErrors |-> FetchToastErrors(outcome, "notes", cachedNotes)])
  /\ UNCHANGED <<user, online, clock, folders, loading, isSyncing, hasPendingSync,
                 cachedFolders, pending, remoteNotes, remoteFolders, nextId, calls,
                 mount>>

(* OfflineIndicator: the pill is clickable when online with pending changes *)
ManualSync ==
  /\ loading = FALSE
  /\ online /\ hasPendingSync
  /\ WouldDrain(online, pending)
  /\ SyncPendingChanges(TRUE, online, pending, drains, isSyncing)
  /\ debounced' = debounced
  /\ last' = NoEvent
  /\ UNCHANGED <<user, online, clock, notes, folders, loading, hasPendingSync,
                 cachedNotes, cachedFolders, pending, remoteNotes, remoteFolders,
                 nextId, calls, mount>>

----------------------------------------------------------------------------
(* Connectivity: the online/offline events set isOnline; the auto-sync      *)
(* effect runs syncPendingChanges when isOnline && hasPendingSync.          *)

GoOnline ==
  /\ ~online
  /\ online' = TRUE
  /\ SyncPendingChanges(hasPendingSync, TRUE, pending, drains, isSyncing)
  /\ debounced' = debounced
  /\ last' = NoEvent
  /\ UNCHANGED <<user, clock, notes, folders, loading, hasPendingSync, cachedNotes,
                 cachedFolders, pending, remoteNotes, remoteFolders, nextId, calls,
                 mount>>

GoOffline ==
  /\ online
  /\ online' = FALSE
  /\ debounced' = debounced
  /\ last' = NoEvent
  /\ UNCHANGED <<user, clock, notes, folders, loading, isSyncing, hasPendingSync,
                 cachedNotes, cachedFolders, pending, remoteNotes, remoteFolders,
                 nextId, calls, drains, mount>>

----------------------------------------------------------------------------
(* Mount.  The effects run in hook order and their IndexedDB reads settle   *)
(* in the order they were requested: checkPending, then loadData's cache    *)
(* reads; loadData then awaits both fetches and calls syncPendingChanges.   *)

MountCheckPending ==
  /\ mount.pc = "start"
  /\ mount' = [mount EXCEPT !.pc = "checked"]
  /\ hasPendingSync' = HasRemaining(pending)
  /\ SyncPendingChanges(hasPendingSync', online, pending, drains, isSyncing)
  /\ debounced' = debounced
  /\ last' = NoEvent
  /\ UNCHANGED <<user, online, clock, notes, folders, loading, cachedNotes,
                 cachedFolders, pending, remoteNotes, remoteFolders, nextId, calls>>

MountLoadCache ==
  /\ mount.pc = "checked"
  /\ user # NoUser
  /\ LET cn == GetAll(cachedNotes)
         cf == GetAll(cachedFolders)
     IN /\ notes' = IF Len(cn) > 0 THEN OwnedBy(cn, user) ELSE notes
        /\ folders' = IF Len(cf) > 0 THEN OwnedBy(cf, user) ELSE folders
  /\ loading' = TRUE
  /\ mount' = [pc |-> "fetching", nf |-> FetchMode(online), ff |-> FetchMode(online)]
  /\ debounced' = debounced
  /\ last' = NoEvent
  /\ UNCHANGED <<user, online, clock, isSyncing, hasPendingSync, cachedNotes,
                 cachedFolders, pending, remoteNotes, remoteFolders, nextId, calls,
                 drains>>

(* lines 195-201, once both fetches have settled *)
MountFinish(finished) ==
  /\ loading' = IF finished THEN FALSE ELSE loading
  /\ SyncPendingChanges(finished /\ online, online, pending, drains, isSyncing)

MountFetchNotes(outcome) ==
  /\ mount.pc = "fetching"
  /\ outcome \in FetchOutcomes(mount.nf)
  /\ notes' = NotesAfterFetch(outcome)
  /\ cachedNotes' = CacheAfterFetch(outcome)
  /\ mount' = [mount EXCEPT !.nf = "done",
                            !.pc = IF mount.ff = "done" THEN "done" ELSE "fetching"]
  /\ MountFinish(mount.ff = "done")
  /\ debounced' = debounced
  /\ last' = Event("fetch", "notes", Null, 0, outcome # "err", notes,
                   [toastErrors |-> FetchToastErrors(outcome, "notes", cachedNotes)])
  /\ UNCHANGED <<user, online, clock, folders, hasPendingSync, cachedFolders, pending,
                 remoteNotes, remoteFolders, nextId, calls>>

MountFetchFolders(outcome) ==
  /\ mount.pc = "fetching"
  /\ outcome \in FetchOutcomes(mount.ff)
  /\ folders' = FoldersAfterFetch(outcome)
  /\ cachedFolders' = FolderCacheAfterFetch(outcome)
  /\ mount' = [mount EXCEPT !.ff = "done",
                            !.pc = IF mount.nf = "done" THEN "done" ELSE "fetching"]
  /\ MountFinish(mount.nf = "done")
  /\ debounced' = debounced
  /\ last' = Event("fetch", "folders", Null, 0, outcome # "err", folders,
                   [toastErrors |-> FetchToastErrors(outcome, "folders", cachedFolders)])
  /\ UNCHANGED <<user, online, clock, notes, hasPendingSync, cachedNotes, pending,
                 remoteNotes, remoteFolders, nextId, calls>>

(* A reload of the page: the React state and every call in flight are gone; *)
(* IndexedDB and the remote store stay.                                     *)
Reload ==
  /\ clock < MaxClock
  /\ clock' = clock + 1
  /\ notes' = <<>>
  /\ folders' = <<>>
  /\ loading' = TRUE
  /\ isSyncing' = FALSE
  /\ hasPendingSync' = FALSE
  /\ calls' = EmptyStore
  /\ drains' = [s \in 1..MaxDrains |-> IdleDrain]
  /\ mount' = [pc |-> "start", nf |-> "none", ff |-> "none"]
  /\ debounced' = debounced
  /\ last' = NoEvent
  /\ UNCHANGED <<user, online, cachedNotes, cachedFolders, pending, remoteNotes,
                 remoteFolders, nextId>>

----------------------------------------------------------------------------
(* The facade calls.  A call in flight is a frame                           *)
(*   api      the facade function and variant                               *)
(*   id       the entity (the temporary id for createFolder)                *)
(*   updates  the fields passed                                             *)
(*   prev     previousNotes / previousFolders, the rollback snapshot        *)
(*   issued   the collection in memory when the call was issued             *)
(*   pc       "cache": awaiting the IndexedDB write; "remote": awaiting the *)
(*            remote store                                                  *)
(* The dashboard renders the notes UI only once loading is false.           *)

UpdateInputs == {[title |-> "t1"], [title |-> "t2"], [content |-> "c1"]}

NoteApis == {"updateNote", "softDelete", "restoreNote", "permanentDelete"}

SetCall(cs, seq, frame) ==
  [k \in DOMAIN cs \cup {seq} |-> IF k = seq THEN frame ELSE cs[k]]

Frame(api, id, updates, prev, pc) ==
  [api |-> api, id |-> id, updates |-> updates, prev |-> prev, issued |-> prev, pc |-> pc]

CreatesInFlight ==
  Cardinality({s \in DOMAIN calls : calls[s].api \in {"createNote", "importNote", "createFolder"}})

(* An entry queued with the action the facade call was named after *)
PendingItemByApi(frame, now) ==
  [id |-> frame.id, type |-> "note", action |-> frame.api,
   data |-> frame.updates, timestamp |-> now]

(* the entry updateNote / deleteNote hands to addPendingSync *)
PendingItem(frame, now) ==
  [id |-> frame.id, type |-> "note",
   action |-> IF frame.api = "permanentDelete" THEN "delete" ELSE "update",
   data |-> frame.updates, timestamp |-> now]

(* A queue that keeps the entry it already holds for an id *)
AddIfAbsent(pend, item) == IF item.id \in DOMAIN pend THEN pend ELSE Put(pend, item)

(* addPendingSync: store.put(item) *)
AddPendingSync(pend, item) == Put(pend, item)

(* A branch that sends the change to the remote store whatever            *)
(* navigator.onLine says                                                    *)
AlwaysSend(seq, frame, others, now) ==
  /\ calls' = SetCall(others, seq, [frame EXCEPT !.pc = "remote"])
  /\ UNCHANGED <<pending, hasPendingSync>>

(* updateNote lines 280-296, deleteNote lines 320-335: offline, queue the   *)
(* change and return true; online, send it to the remote store.             *)
OnlineBranch(seq, frame, others, now) ==
  IF ~online
  THEN /\ pending' = AddPendingSync(pending, PendingItem(frame, now))
       /\ hasPendingSync' = TRUE
       /\ calls' = others
  ELSE /\ calls' = SetCall(others, seq, [frame EXCEPT !.pc = "remote"])
       /\ UNCHANGED <<pending, hasPendingSync>>

(* An update that waits for the remote store before it shows *)
NoOptimisticUpdate(rows, id, updates, now) == rows

(* the optimistic setNotes of updateNote *)
OptimisticUpdate(rows, id, updates, now) ==
  [i \in 1..Len(rows) |->
     IF rows[i].id = id THEN Spread(rows[i], updates @@ [updated_at |-> now])
     ELSE rows[i]]

(* updateNote up to its first await (lines 264-278); deleteNote(id) and     *)
(* restoreNote(id) are updateNote with the is_deleted / deleted_at pair.    *)
IssueUpdate(api, id, updates) ==
  /\ loading = FALSE
  /\ clock < MaxClock
  /\ clock' = clock + 1
  /\ notes' = OptimisticUpdate(notes, id, updates, clock')
  /\ LET frame == Frame(api, id, updates, notes, "cache") IN
     IF id \in Ids(notes)
     THEN /\ cachedNotes' =
               Put(cachedNotes, Spread(Find(notes, id), updates @@ [updated_at |-> clock']))
          /\ calls' = SetCall(calls, clock', frame)
          /\ UNCHANGED <<pending, hasPendingSync>>
     ELSE /\ cachedNotes' = cachedNotes
          /\ OnlineBranch(clock', frame, calls, clock')
  /\ debounced' = debounced
  /\ last' = Event(IF id \in Ids(notes) THEN "issue" ELSE IF online THEN "send" ELSE "queue",
                   api, id, clock', TRUE, notes,
                   IF id \in Ids(notes) \/ online THEN EmptyStore
                   ELSE PendingItem(Frame(api, id, updates, notes, "cache"), clock'))
  /\ UNCHANGED <<user, online, folders, loading, isSyncing, cachedFolders, remoteNotes,
                 remoteFolders, nextId, drains, mount>>

UpdateNote(id, updates) ==
  /\ \/ id \in Ids(notes) /\ ~Find(notes, id).is_deleted
     \/ id \notin Ids(notes) /\ id \in DOMAIN pending /\ pending[id].action = "delete"
  /\ IssueUpdate("updateNote", id, updates)

(* A soft delete that also blanks the title *)
SoftDeleteAndBlank(now) == [is_deleted |-> TRUE, deleted_at |-> now, title |-> ""]

(* deleteNote(id): the fields it hands to updateNote *)
SoftDeleteFields(now) == [is_deleted |-> TRUE, deleted_at |-> now]

SoftDelete(id) ==
  /\ id \in Ids(notes) /\ ~Find(notes, id).is_deleted
  /\ IssueUpdate("softDelete", id, SoftDeleteFields(clock + 1))

(* A restore that clears the flag and leaves deleted_at as it is *)
RestoreFlagOnly == [is_deleted |-> FALSE]

(* restoreNote: the fields it hands to updateNote *)
RestoreFields == [is_deleted |-> FALSE, deleted_at |-> Null]

RestoreNote(id) ==
  /\ id \in Ids(notes) /\ Find(notes, id).is_deleted
  /\ IssueUpdate("restoreNote", id, RestoreFields)

(* deleteNote(id, true) up to its first await (lines 310-318) *)
PermanentDelete(id) ==
  /\ loading = FALSE
  /\ clock < MaxClock
  /\ id \in Ids(notes) /\ Find(notes, id).is_deleted
  /\ clock' = clock + 1
  /\ notes' = Without(notes, id)
  /\ cachedNotes' = Del(cachedNotes, id)
  /\ calls' = SetCall(calls, clock', Frame("permanentDelete", id, EmptyStore, notes, "cache"))
  /\ debounced' = debounced
  /\ last' = Event("issue", "permanentDelete", id, clock', TRUE, notes, EmptyStore)
  /\ UNCHANGED <<user, online, folders, loading, isSyncing, hasPendingSync, cachedFolders,
                 pending, remoteNotes, remoteFolders, nextId, drains, mount>>

(* IndexedDB runs the transactions on one store in the order they were made *)
AwaitingCache == {s \in DOMAIN calls : calls[s].pc = "cache"}

(* the continuation after await updateCachedNote / deleteCachedNote *)
AfterCache(seq) ==
  /\ seq \in AwaitingCache /\ seq = MinKey(AwaitingCache)
  /\ OnlineBranch(seq, calls[seq], Del(calls, seq), clock)
  /\ debounced' = debounced
  /\ last' = Event(IF online THEN "send" ELSE "queue", calls[seq].api, calls[seq].id, seq,
                   TRUE, calls[seq].issued,
                   IF online THEN EmptyStore ELSE PendingItem(calls[seq], clock))
  /\ UNCHANGED <<user, online, clock, notes, folders, loading, isSyncing, cachedNotes,
                 cachedFolders, remoteNotes, remoteFolders, nextId, drains, mount>>

(* A failure handler that leaves the optimistic state in place *)
KeepOptimistic(frame) == IF frame.api \in NoteApis THEN notes ELSE folders

(* the rollback: setNotes(previousNotes) *)
Rollback(frame) == frame.prev

(* the toast.error calls of the handler of a rejected remote call *)
ToastErrors(api) ==
  CASE api = "createNote" -> <<"Failed to create note">>
    [] api = "importNote" -> <<>>
    [] api \in {"updateNote", "softDelete", "restoreNote"} -> <<"Failed to update note">>
    [] api = "permanentDelete" -> <<"Failed to delete note">>
    [] api = "createFolder" -> <<"Failed to create folder">>
    [] api = "updateFolder" -> <<"Failed to update folder">>
    [] api = "deleteFolder" -> <<"Failed to delete folder">>

(* what the facade call returns once the remote store has answered *)
Result(api, ok) ==
  IF api \in {"createNote", "importNote", "createFolder"}
  THEN (IF ok THEN "data" ELSE "null")
  ELSE (IF ok THEN "true" ELSE "false")

(* what a settled call is seen to have done: the fields it sent, the        *)
(* failure notices it showed and the value it returned                      *)
Settled(frame, ok) ==
  [updates |-> frame.updates,
   toastErrors |-> IF ok THEN <<>> ELSE ToastErrors(frame.api),
   result |-> Result(frame.api, ok)]

(* the remote store answers an update or a delete of a note *)
NoteRemote(seq, ok) ==
  /\ seq \in DOMAIN calls
  /\ calls[seq].pc = "remote" /\ calls[seq].api \in NoteApis
  /\ ok => online
  /\ LET c == calls[seq] IN
     IF ok
     THEN /\ remoteNotes' = IF c.api = "permanentDelete"
                            THEN RemoteDelete(remoteNotes, c.id)
                            ELSE RemoteUpdate(remoteNotes, c.id, c.updates)
          /\ notes' = notes
     ELSE /\ notes' = Rollback(c)
          /\ remoteNotes' = remoteNotes
  /\ calls' = Del(calls, seq)
  /\ debounced' = debounced
  /\ last' = Event("settle", calls[seq].api, calls[seq].id, seq, ok, calls[seq].issued,
                   Settled(calls[seq], ok))
  /\ UNCHANGED <<user, online, clock, folders, loading, isSyncing, hasPendingSync,
                 cachedNotes, cachedFolders, pending, remoteFolders, nextId, drains,
                 mount>>

----------------------------------------------------------------------------
(* createNote / importNote (lines 216-261): the insert is awaited first and *)
(* the returned row is prepended on success.                                *)

NewNoteFields(api) ==
  IF api = "createNote" THEN [title |-> "Untitled", content |-> "", folder_id |-> Null]
  ELSE [title |-> "t1", content |-> "c1", folder_id |-> Null]

CreateNote(api) ==
  /\ api \in {"createNote", "importNote"}
  /\ loading = FALSE
  /\ user # NoUser
  /\ clock < MaxClock
  /\ nextId + CreatesInFlight <= MaxIds
  /\ clock' = clock + 1
  /\ calls' = SetCall(calls, clock', Frame(api, Null, NewNoteFields(api), notes, "remote"))
  /\ debounced' = debounced
  /\ last' = Event("issue", api, Null, clock', TRUE, notes, EmptyStore)
  /\ UNCHANGED <<user, online, notes, folders, loading, isSyncing, hasPendingSync,
                 cachedNotes, cachedFolders, pending, remoteNotes, remoteFolders, nextId,
                 drains, mount>>

(* insert(...).select().single(): the row with the server's id and times *)
InsertedNote(fields, id, now, uid) ==
  [id |-> id, title |-> fields.title, content |-> fields.content,
   folder_id |-> fields.folder_id, is_deleted |-> FALSE, deleted_at |-> Null,
   created_at |-> now, updated_at |-> now, user_id |-> uid]

(* what createNote does with the row: setNotes((prev) => [data, ...prev]) *)
NotesAfterCreate(rows, row) == <<row>> \o rows

CreateNoteRemote(seq, ok) ==
  /\ seq \in DOMAIN calls
  /\ calls[seq].pc = "remote" /\ calls[seq].api \in {"createNote", "importNote"}
  /\ ok => online
  /\ LET row == InsertedNote(calls[seq].updates, nextId, clock, user) IN
     IF ok
     THEN /\ remoteNotes' = Put(remoteNotes, row)
          /\ nextId' = nextId + 1
          /\ notes' = NotesAfterCreate(notes, row)
     ELSE UNCHANGED <<remoteNotes, nextId, notes>>
  /\ calls' = Del(calls, seq)
  /\ debounced' = debounced
  /\ last' = Event("settle", calls[seq].api, calls[seq].id, seq, ok, calls[seq].issued,
                   Settled(calls[seq], ok))
  /\ UNCHANGED <<user, online, clock, folders, loading, isSyncing, hasPendingSync,
                 cachedNotes, cachedFolders, pending, remoteFolders, drains, mount>>

----------------------------------------------------------------------------
(* Folders (lines 357-446).  The temporary id `temp-${Date.now()}` is the   *)
(* negated time; the folder mutations never look at navigator.onLine and    *)
(* never touch the local store.                                             *)

TempId(now) == 0 - now

FolderApis == {"updateFolder", "deleteFolder"}

(* A create that waits for the remote store before it shows *)
FoldersUnchanged(rows, folder) == rows

(* setFolders((prev) => [...prev, optimisticFolder]) *)
FoldersAfterCreate(rows, folder) == Append(rows, folder)

CreateFolder(name) ==
  /\ loading = FALSE
  /\ user # NoUser
  /\ clock < MaxClock
  /\ nextId + CreatesInFlight <= MaxIds
  /\ clock' = clock + 1
  /\ folders' = FoldersAfterCreate(folders, FolderRow(TempId(clock'), name, "Folder", clock', user))
  /\ calls' = SetCall(calls, clock',
                      Frame("createFolder", TempId(clock'), [name |-> name, icon |-> "Folder"],
                            folders, "remote"))
  /\ debounced' = debounced
  /\ last' = Event("issue", "createFolder", TempId(clock'), clock', TRUE, folders, EmptyStore)
  /\ UNCHANGED <<user, online, notes, loading, isSyncing, hasPendingSync, cachedNotes,
                 cachedFolders, pending, remoteNotes, remoteFolders, nextId, drains, mount>>

CreateFolderRemote(seq, ok) ==
  /\ seq \in DOMAIN calls
  /\ calls[seq].pc = "remote" /\ calls[seq].api = "createFolder"
  /\ ok => online
  /\ LET c == calls[seq]
         row == FolderRow(nextId, c.updates.name, c.updates.icon, clock, user)
     IN IF ok
        THEN /\ remoteFolders' = Put(remoteFolders, row)
             /\ nextId' = nextId + 1
             /\ folders' = [i \in 1..Len(folders) |->
                              IF folders[i].id = c.id THEN row ELSE folders[i]]
        ELSE /\ folders' = Without(folders, c.id)
             /\ UNCHANGED <<remoteFolders, nextId>>
  /\ calls' = Del(calls, seq)
  /\ debounced' = debounced
  /\ last' = Event("settle", calls[seq].api, calls[seq].id, seq, ok, calls[seq].issued,
                   Settled(calls[seq], ok))
  /\ UNCHANGED <<user, online, clock, notes, loading, isSyncing, hasPendingSync,
                 cachedNotes, cachedFolders, pending, remoteNotes, drains, mount>>

(* the optimistic setFolders of updateFolder: no updated_at stamp *)
OptimisticFolderUpdate(rows, id, updates) ==
  [i \in 1..Len(rows) |-> IF rows[i].id = id THEN Spread(rows[i], updates) ELSE rows[i]]

UpdateFolder(id, updates) ==
  /\ loading = FALSE
  /\ clock < MaxClock
  /\ id \in Ids(folders)
  /\ clock' = clock + 1
  /\ folders' = OptimisticFolderUpdate(folders, id, updates)
  /\ calls' = SetCall(calls, clock', Frame("updateFolder", id, updates, folders, "remote"))
  /\ debounced' = debounced
  /\ last' = Event("issue", "updateFolder", id, clock', TRUE, folders, EmptyStore)
  /\ UNCHANGED <<user, online, notes, loading, isSyncing, hasPendingSync, cachedNotes,
                 cachedFolders, pending, remoteNotes, remoteFolders, nextId, drains, mount>>

DeleteFolder(id) ==
  /\ loading = FALSE
  /\ clock < MaxClock
  /\ id \in Ids(folders)
  /\ clock' = clock + 1
  /\ folders' = Without(folders, id)
  /\ calls' = SetCall(calls, clock', Frame("deleteFolder", id, EmptyStore, folders, "remote"))
  /\ debounced' = debounced
  /\ last' = Event("issue", "deleteFolder", id, clock', TRUE, folders, EmptyStore)
  /\ UNCHANGED <<user, online, notes, loading, isSyncing, hasPendingSync, cachedNotes,
                 cachedFolders, pending, remoteNotes, remoteFolders, nextId, drains, mount>>

FolderRemote(seq, ok) ==
  /\ seq \in DOMAIN calls
  /\ calls[seq].pc = "remote" /\ calls[seq].api \in FolderApis
  /\ ok => online
  /\ LET c == calls[seq] IN
     IF ok
     THEN /\ remoteFolders' = IF c.api = "deleteFolder"
                              THEN RemoteDelete(remoteFolders, c.id)
                              ELSE RemoteUpdate(remoteFolders, c.id, c.updates)
          /\ folders' = folders
     ELSE /\ folders' = Rollback(c)
          /\ remoteFolders' = remoteFolders
  /\ calls' = Del(calls, seq)
  /\ debounced' = debounced
  /\ last' = Event("settle", calls[seq].api, calls[seq].id, seq, ok, calls[seq].issued,
                   Settled(calls[seq], ok))
  /\ UNCHANGED <<user, online, clock, notes, loading, isSyncing, hasPendingSync,
                 cachedNotes, cachedFolders, pending, remoteNotes, nextId, drains, mount>>

----------------------------------------------------------------------------
FolderIds == {TempId(t) : t \in 1..MaxClock} \cup 1..MaxIds

Next ==
  \/ MountCheckPending
  \/ MountLoadCache
  \/ \E o \in {"ok", "err", "offline"} : MountFetchNotes(o)
  \/ \E o \in {"ok", "err", "offline"} : MountFetchFolders(o)
  \/ GoOnline
  \/ GoOffline
  \/ Reload
  \/ ManualSync
  \/ \E s \in 1..MaxDrains, ok \in BOOLEAN : DrainItem(s, ok)
  \/ \E s \in 1..MaxDrains, o \in {"ok", "err", "offline"} : DrainFetch(s, o)
  \/ \E id \in 1..MaxIds, u \in UpdateInputs : UpdateNote(id, u)
  \/ \E id \in 1..MaxIds : SoftDelete(id)
  \/ \E id \in 1..MaxIds : RestoreNote(id)
  \/ \E id \in 1..MaxIds : PermanentDelete(id)
  \/ \E seq \in 1..MaxClock : AfterCache(seq)
  \/ \E seq \in 1..MaxClock, ok \in BOOLEAN : NoteRemote(seq, ok)
  \/ \E api \in {"createNote", "importNote"} : CreateNote(api)
  \/ \E seq \in 1..MaxClock, ok \in BOOLEAN : CreateNoteRemote(seq, ok)
  \/ CreateFolder("f1")
  \/ \E seq \in 1..MaxClock, ok \in BOOLEAN : CreateFolderRemote(seq, ok)
  \/ \E id \in FolderIds : UpdateFolder(id, [name |-> "f2"])
  \/ \E id \in FolderIds : DeleteFolder(id)
  \/ \E seq \in 1..MaxClock, ok \in BOOLEAN : FolderRemote(seq, ok)

Spec == Init /\ [][Next]_vars

----------------------------------------------------------------------------
(* Properties *)

C2_RollbackLeavesOtherNotes ==
  [][(last'.kind = "settle" /\ ~last'.ok /\ last'.api \in NoteApis /\ calls' = EmptyStore) =>
       \A id \in (Ids(notes) \cup Ids(notes')) \ {last'.id} :
          /\ id \in Ids(notes) /\ id \in Ids(notes')
          /\ Find(notes', id) = Find(notes, id)]_vars

(* C3: at most one run of syncPendingChanges is in its replay loop at any   *)
(* time, whichever of the mount effect, the auto-sync effect and the manual *)
(* sync started it.                                                         *)
C3_SingleDrain == Cardinality(Draining) <= 1

(* C4: an entry leaves the pending queue only in the step of a successful   *)
(* replay, and the payload that replay sent to the remote store is the      *)
(* payload the entry held when it was removed.                              *)
C4_RemovedOnlyWhenSent ==
  [][\A id \in DOMAIN pending \ DOMAIN pending' :
        /\ last'.kind = "replay" /\ last'.ok /\ last'.id = id
        /\ last'.item.action = pending[id].action
        /\ last'.item.data = pending[id].data]_vars

(* Un's payload merged over the payload queued before it *)
MergedPayload(old, new) ==
  [f \in DOMAIN old \cup DOMAIN new |-> IF f \in DOMAIN new THEN new[f] ELSE old[f]]

(* C5: when an offline update of a note is queued while the queue already   *)
(* holds an update for the same id, the entry afterwards carries the new    *)
(* payload merged over the payload queued before: every field changed by    *)
(* any of the updates is present, with its latest value.                    *)
C5_CoalesceMerges ==
  [][(/\ last'.kind = "queue"
      /\ last'.api \in {"updateNote", "softDelete", "restoreNote"}
      /\ last'.id \in DOMAIN pending
      /\ pending[last'.id].action = "update") =>
       /\ last'.id \in DOMAIN pending'
       /\ pending'[last'.id].data = MergedPayload(pending[last'.id].data, last'.item.data)]_vars

Busy == \E s \in DOMAIN drains : drains[s].pc # "idle"

QuietEnv ==
  /\ last'.kind \in {"settle", "replay", "fetch"} => last'.ok
  /\ Busy' => calls' = EmptyStore
  /\ Busy => clock' = clock

NextQuiet ==
  \/ MountCheckPending /\ QuietEnv
  \/ MountLoadCache /\ QuietEnv
  \/ (\E o \in {"ok", "err", "offline"} : MountFetchNotes(o)) /\ QuietEnv
  \/ (\E o \in {"ok", "err", "offline"} : MountFetchFolders(o)) /\ QuietEnv
  \/ GoOnline /\ QuietEnv
  \/ GoOffline /\ QuietEnv
  \/ Reload /\ QuietEnv
  \/ ManualSync /\ QuietEnv
  \/ (\E s \in 1..MaxDrains, ok \in BOOLEAN : DrainItem(s, ok)) /\ QuietEnv
  \/ (\E s \in 1..MaxDrains, o \in {"ok", "err", "offline"} : DrainFetch(s, o)) /\ QuietEnv
  \/ (\E id \in 1..MaxIds, u \in UpdateInputs : UpdateNote(id, u)) /\ QuietEnv
  \/ (\E id \in 1..MaxIds : SoftDelete(id)) /\ QuietEnv
  \/ (\E id \in 1..MaxIds : RestoreNote(id)) /\ QuietEnv
  \/ (\E id \in 1..MaxIds : PermanentDelete(id)) /\ QuietEnv
  \/ (\E seq \in 1..MaxClock : AfterCache(seq)) /\ QuietEnv
  \/ (\E seq \in 1..MaxClock, ok \in BOOLEAN : NoteRemote(seq, ok)) /\ QuietEnv
  \/ (\E api \in {"createNote", "importNote"} : CreateNote(api)) /\ QuietEnv
  \/ (\E seq \in 1..MaxClock, ok \in BOOLEAN : CreateNoteRemote(seq, ok)) /\ QuietEnv
  \/ CreateFolder("f1") /\ QuietEnv
  \/ (\E seq \in 1..MaxClock, ok \in BOOLEAN : CreateFolderRemote(seq, ok)) /\ QuietEnv
  \/ (\E id \in FolderIds : UpdateFolder(id, [name |-> "f2"])) /\ QuietEnv
  \/ (\E id \in FolderIds : DeleteFolder(id)) /\ QuietEnv
  \/ (\E seq \in 1..MaxClock, ok \in BOOLEAN : FolderRemote(seq, ok)) /\ QuietEnv

SpecQuiet == Init /\ [][NextQuiet]_vars

(* the rows show the queued change: the fields of an update, no row for a   *)
(* delete                                                                   *)
Applied(rows, op) ==
  IF op.action = "delete" THEN op.id \notin Ids(rows)
  ELSE /\ op.id \in Ids(rows)
       /\ \A f \in DOMAIN op.data : Find(rows, op.id)[f] = op.data[f]

C8_FetchKeepsQueuedChanges ==
  [][(last'.kind = "fetch" /\ last'.api = "notes") =>
       \A id \in DOMAIN pending' :
          Applied(notes, pending'[id]) => Applied(notes', pending'[id])]_vars

C12_FolderOfflineBranch ==
  (last.kind = "issue" /\ last.api \in FolderApis /\ ~online) =>
    /\ IF last.api = "deleteFolder" THEN last.id \notin DOMAIN cachedFolders
       ELSE /\ last.id \in DOMAIN cachedFolders
            /\ last.id \in Ids(folders)
            /\ cachedFolders[last.id] = Find(folders, last.id)
    /\ last.seq \in DOMAIN calls => calls[last.seq].pc # "remote"
    /\ last.seq \notin DOMAIN calls =>
         /\ last.id \in DOMAIN pending
         /\ pending[last.id].type = "folder"

(* the remote store gave the id out and no longer holds the row: a          *)
(* permanent delete of the note has succeeded                               *)
Destroyed(id, rows, next) == id \in 1..(next - 1) /\ id \notin DOMAIN rows

(* C13: once a permanent delete of a note has succeeded against the remote  *)
(* store, no later step puts the note into the in-memory notes, and no      *)
(* update, soft delete, restore or permanent delete is issued on it.        *)
C13_DestroyedIsTerminal ==
  [][/\ \A id \in Ids(notes') \ Ids(notes) : ~Destroyed(id, remoteNotes', nextId')
     /\ (last'.kind = "issue" /\ last'.api \in NoteApis /\ clock' # clock) =>
          ~Destroyed(last'.id, remoteNotes, nextId)]_vars

----------------------------------------------------------------------------
(* The authentication collaborator reports that there is no user any more   *)
(* (sign-out, expired session): useAuth().user becomes null and the hook    *)
(* renders again with everything else as it was.  Taken when neither the    *)
(* mount effect nor a drain is running: their continuations would go on     *)
(* with the user their closures captured.                                   *)
SignOut ==
  /\ user # NoUser
  /\ mount.pc = "done" /\ ~Busy
  /\ user' = NoUser
  /\ debounced' = debounced
  /\ last' = NoEvent
  /\ UNCHANGED <<online, clock, notes, folders, loading, isSyncing, hasPendingSync,
                 cachedNotes, cachedFolders, pending, remoteNotes, remoteFolders, nextId,
                 calls, drains, mount>>

NextAuth ==
  \/ Next
  \/ SignOut

SpecAuth == Init /\ [][NextAuth]_vars

(* C14: while there is no authenticated user no facade operation does       *)
(* anything: no mutation is issued, queued or sent to the remote store, no  *)
(* queue entry is replayed and nothing is fetched; the only steps are the   *)
(* answers to calls sent before the user was gone.                          *)
C14_NoUserNoRemoteCall ==
  user = NoUser => last.kind \in {"none", "settle"}

----------------------------------------------------------------------------
(* Failures of the local store.  updateCachedNote, deleteCachedNote and     *)
(* addPendingSync await openDB() inside their try block, so a database that *)
(* cannot be opened is caught and logged and the function returns; the      *)
(* promise that waits for the transaction is returned from the try block    *)
(* without an await, so a transaction error rejects the function's promise  *)
(* past the catch.  A frame whose write failed waits at pc "open" or "tx".  *)

StoreFaults == {"open", "tx"}

(* updateNote up to its first await when the write to the notes store fails *)
UpdateNoteStoreFails(id, updates, fault) ==
  /\ loading = FALSE
  /\ clock < MaxClock
  /\ id \in Ids(notes) /\ ~Find(notes, id).is_deleted
  /\ clock' = clock + 1
  /\ notes' = OptimisticUpdate(notes, id, updates, clock')
  /\ calls' = SetCall(calls, clock', Frame("updateNote", id, updates, notes, fault))
  /\ debounced' = debounced
  /\ last' = Event("issue", "updateNote", id, clock', TRUE, notes, EmptyStore)
  /\ UNCHANGED <<user, online, folders, loading, isSyncing, hasPendingSync, cachedNotes,
                 cachedFolders, pending, remoteNotes, remoteFolders, nextId, drains, mount>>

(* the continuation of updateNote after the failed write: after a caught    *)
(* failure line 281 is reached; after a rejection the await at line 277     *)
(* throws and updateNote ends there, its promise rejected                   *)
AfterCacheFails(seq) ==
  /\ seq \in DOMAIN calls /\ calls[seq].pc \in StoreFaults
  /\ IF calls[seq].pc = "open"
     THEN /\ OnlineBranch(seq, calls[seq], Del(calls, seq), clock)
          /\ debounced' = debounced
          /\ last' = Event(IF online THEN "send" ELSE "queue", calls[seq].api, calls[seq].id,
                           seq, TRUE, calls[seq].issued,
                           IF online THEN EmptyStore ELSE PendingItem(calls[seq], clock))
     ELSE /\ calls' = Del(calls, seq)
          /\ debounced' = debounced
          /\ last' = Event("reject", calls[seq].api, calls[seq].id, seq, FALSE,
                           calls[seq].issued, EmptyStore)
          /\ UNCHANGED <<pending, hasPendingSync>>
  /\ UNCHANGED <<user, online, clock, notes, folders, loading, isSyncing, cachedNotes,
                 cachedFolders, remoteNotes, remoteFolders, nextId, drains, mount>>

NextStore ==
  \/ Next
  \/ \E id \in 1..MaxIds, u \in UpdateInputs, fault \in StoreFaults :
       UpdateNoteStoreFails(id, u, fault)
  \/ \E seq \in 1..MaxClock : AfterCacheFails(seq)

SpecStore == Init /\ [][NextStore]_vars

(* C15: an updateNote whose write to the local store failed, whether the    *)
(* database could not be opened or the transaction reported an error, goes  *)
(* on: its next step either sends the change to the remote store or, when   *)
(* offline, queues it and returns true.                                     *)
C15_StoreFailureNeverBlocks ==
  [][\A seq \in DOMAIN calls :
       (/\ calls[seq].pc \in StoreFaults
        /\ clock' = clock
        /\ seq \in DOMAIN calls' => calls'[seq].pc # calls[seq].pc) =>
         IF seq \in DOMAIN calls' THEN calls'[seq].pc = "remote"
         ELSE last'.kind = "queue" /\ last'.seq = seq /\ last'.ok]_vars

(* C16: when the remote call of createNote, importNote, updateNote,         *)
(* deleteNote, restoreNote, createFolder, updateFolder or deleteFolder is   *)
(* rejected while the client is online, the call shows exactly one failure  *)
(* notice and returns false or null.                                        *)
C16_RejectionSurfacedOnce ==
  (last.kind = "settle" /\ ~last.ok /\ online) =>
    /\ Len(last.item.toastErrors) = 1
    /\ last.item.result \in {"false", "null"}

(* no mutation, fetch or drain is in flight *)
Quiescent == calls = EmptyStore /\ ~Busy /\ mount.pc = "done" /\ ~loading

(* C17: whenever no mutation, fetch or drain is in flight, the notes and    *)
(* folders stores of the local store hold exactly the user's notes and      *)
(* folders in memory, with the same ids and the same field values.          *)
C17_WriteThroughShadow ==
  Quiescent =>
    /\ cachedNotes = StoreOf(OwnedBy(notes, user))
    /\ cachedFolders = StoreOf(OwnedBy(folders, user))

(* Two updates of one note were in flight together and the remote store has *)
(* just accepted the second of them, right after the first; nothing else is *)
(* in flight, the remote row exists, the later call was issued on the note  *)
(* as the earlier call left it, and the note in memory is as the later call *)
(* left it.  The step's `last` is the update accepted first, `last'` the    *)
(* one accepted second.                                                     *)
TwoUpdatesSettled ==
  /\ last.kind = "settle" /\ last.ok
  /\ last'.kind = "settle" /\ last'.ok
  /\ last.api \in {"updateNote", "softDelete", "restoreNote"}
  /\ last'.api \in {"updateNote", "softDelete", "restoreNote"}
  /\ last'.id = last.id /\ last'.seq # last.seq
  /\ calls' = EmptyStore
  /\ last.id \in DOMAIN remoteNotes'
  /\ last.id \in Ids(notes)
  /\ LET earlier == IF last.seq < last'.seq THEN last ELSE last'
         later == IF last.seq > last'.seq THEN last ELSE last'
     IN /\ last.id \in Ids(earlier.issued) /\ last.id \in Ids(later.issued)
        /\ Find(later.issued, last.id) =
             Spread(Find(earlier.issued, last.id),
                    earlier.item.updates @@ [updated_at |-> earlier.seq])
        /\ Find(notes, last.id) =
             Spread(Find(later.issued, last.id),
                    later.item.updates @@ [updated_at |-> later.seq])

UpdatedFields == DOMAIN last.item.updates \cup DOMAIN last'.item.updates

C19_DeletedFlagMatchesStamp ==
  /\ \A i \in 1..Len(notes) : (notes[i].is_deleted = FALSE) <=> (notes[i].deleted_at = Null)
  /\ \A id \in DOMAIN cachedNotes :
        (cachedNotes[id].is_deleted = FALSE) <=> (cachedNotes[id].deleted_at = Null)

(* a note that was in the trash has been restored and the remote store has  *)
(* accepted it: flag and stamp are cleared in memory and in the local store *)
(* while another note sits in the trash with both set                       *)
C19_Witness ==
  /\ last.kind = "settle" /\ last.ok /\ last.api = "restoreNote"
  /\ last.id \in Ids(last.issued) /\ Find(last.issued, last.id).deleted_at # Null
  /\ last.id \in Ids(notes)
  /\ ~Find(notes, last.id).is_deleted /\ Find(notes, last.id).deleted_at = Null
  /\ last.id \in DOMAIN cachedNotes
  /\ ~cachedNotes[last.id].is_deleted /\ cachedNotes[last.id].deleted_at = Null
  /\ \E i \in 1..Len(notes) : notes[i].is_deleted /\ notes[i].deleted_at # Null

(* the fields of a note a soft delete and a restore must leave alone *)
KeptFields == {"id", "title", "content", "folder_id", "user_id", "created_at"}

(* C20: when restoreNote is called on a note right after its soft delete    *)
(* has succeeded (accepted by the remote store, or queued offline), the     *)
(* note in memory equals the note as it was before the soft delete in id,   *)
(* title, content, folder_id, is_deleted, user_id and created_at, and its   *)
(* deleted_at is null again; the remote store's acceptance of either call,  *)
(* directly or replayed by a drain, changes nothing in memory and nothing   *)
(* in the remote row but is_deleted and deleted_at.                         *)
C20_SoftDeleteRestoreRoundTrip ==
  [][/\ (/\ last.api = "softDelete" /\ last.kind \in {"settle", "queue"} /\ last.ok
         /\ last'.kind = "issue" /\ last'.api = "restoreNote" /\ last'.id = last.id
         /\ last.id \in Ids(last.issued)) =>
          /\ last.id \in Ids(notes')
          /\ \A f \in KeptFields \cup {"is_deleted", "deleted_at"} :
               Find(notes', last.id)[f] = Find(last.issued, last.id)[f]
          /\ Find(notes', last.id).deleted_at = Null
          /\ ~Find(notes', last.id).is_deleted
     /\ (/\ last'.kind = "settle" /\ last'.ok
         /\ last'.api \in {"softDelete", "restoreNote"}) =>
          /\ notes' = notes
          /\ \A id \in DOMAIN remoteNotes' : \A f \in KeptFields \cup {"updated_at"} :
               id \in DOMAIN remoteNotes /\ remoteNotes'[id][f] = remoteNotes[id][f]
          /\ last'.id \in DOMAIN remoteNotes' =>
               \A f \in {"is_deleted", "deleted_at"} :
                  remoteNotes'[last'.id][f] = last'.item.updates[f]
     /\ (/\ last'.kind = "replay" /\ last'.ok /\ last'.item.action = "update"
         /\ "is_deleted" \in DOMAIN last'.item.data) =>
          /\ notes' = notes
          /\ \A id \in DOMAIN remoteNotes' : \A f \in KeptFields \cup {"updated_at"} :
               id \in DOMAIN remoteNotes /\ remoteNotes'[id][f] = remoteNotes[id][f]
          /\ last'.id \in DOMAIN remoteNotes' =>
               \A f \in {"is_deleted", "deleted_at"} :
                  remoteNotes'[last'.id][f] = last'.item.data[f]]_vars

(* note 1 was active, went to the trash and was restored, both accepted by  *)
(* the remote store: in memory and in the remote row it has its title and   *)
(* content, is_deleted false and deleted_at null                            *)
C20_Witness ==
  /\ last.kind = "settle" /\ last.ok /\ last.api = "restoreNote"
  /\ last.id \in Ids(last.issued)
  /\ Find(last.issued, last.id).is_deleted
  /\ Find(last.issued, last.id).deleted_at > 2
  /\ last.id \in Ids(notes)
  /\ Find(notes, last.id).title = "t0" /\ Find(notes, last.id).content = "c0"
  /\ ~Find(notes, last.id).is_deleted /\ Find(notes, last.id).deleted_at = Null
  /\ last.id \in DOMAIN remoteNotes
  /\ remoteNotes[last.id].title = "t0"
  /\ ~remoteNotes[last.id].is_deleted /\ remoteNotes[last.id].deleted_at = Null

(* C21: on a mount with a user, a populated local store and no connectivity *)
(* each of the two fetches reads the cache only: it leaves the remote store *)
(* and the local store alone and shows no error notice; when the second of  *)
(* them settles the notes and folders in memory are exactly the cached      *)
(* records of the user, loading is false and no drain is started.           *)
C21_CacheFirstColdStart ==
  [][(/\ mount.pc = "fetching" /\ last'.kind = "fetch" /\ last'.seq = 0
      /\ (IF last'.api = "notes" THEN mount.nf ELSE mount.ff) = "cache"
      /\ ~online
      /\ user # NoUser
      /\ cachedNotes # EmptyStore /\ cachedFolders # EmptyStore) =>
       /\ last'.ok /\ last'.item.toastErrors = <<>>
       /\ UNCHANGED <<remoteNotes, remoteFolders, cachedNotes, cachedFolders, pending>>
       /\ last'.api = "notes" =>
            /\ StoreOf(notes') = StoreOf(OwnedBy(GetAll(cachedNotes), user))
            /\ Len(notes') = Cardinality(DOMAIN StoreOf(notes'))
       /\ last'.api = "folders" =>
            /\ StoreOf(folders') = StoreOf(OwnedBy(GetAll(cachedFolders), user))
            /\ Len(folders') = Cardinality(DOMAIN StoreOf(folders'))
       /\ mount'.pc = "done" =>
            /\ ~loading'
            /\ drains' = drains
            /\ StoreOf(notes') = StoreOf(OwnedBy(GetAll(cachedNotes), user))
            /\ StoreOf(folders') = StoreOf(OwnedBy(GetAll(cachedFolders), user))]_vars

(* the page was reloaded offline with notes and folders in the local store: *)
(* the mount is over, both are in memory and the spinner is gone            *)
C21_Witness ==
  /\ mount.pc = "done" /\ ~online /\ ~loading /\ clock > 2
  /\ last.kind = "fetch" /\ last.seq = 0 /\ last.ok
  /\ notes # <<>> /\ StoreOf(notes) = cachedNotes
  /\ folders # <<>> /\ StoreOf(folders) = cachedFolders
  /\ \A s \in DOMAIN drains : drains[s].pc = "idle"

----------------------------------------------------------------------------
(* C25: a folder with a temporary id is in memory only while the            *)
(* createFolder that made it is waiting for the remote store.  The step in  *)
(* which that insert settles on a temporary folder still in memory puts the *)
(* folder the remote store returned in its place, exactly once, on success, *)
(* and removes the temporary folder and nothing else on failure.            *)
C25_CreateSettlesCleanly ==
  [][/\ \A i \in 1..Len(folders') :
          folders'[i].id = TempId(folders'[i].created_at) =>
            \E seq \in DOMAIN calls' :
              calls'[seq].api = "createFolder" /\ calls'[seq].id = folders'[i].id
     /\ (last'.kind = "settle" /\ last'.api = "createFolder" /\ last'.id \in Ids(folders)) =>
          /\ last'.id \notin Ids(folders')
          /\ last'.ok =>
               /\ Cardinality({i \in 1..Len(folders') : folders'[i].id = nextId}) = 1
               /\ Len(folders') = Len(folders)
               /\ \A i \in 1..Len(folders) :
                    folders'[i] = IF folders[i].id = last'.id
                                  THEN remoteFolders'[nextId] ELSE folders[i]
          /\ ~last'.ok => folders' = Without(folders, last'.id)]_vars

(* C26: every entry of the pending queue, and every entry a drain holds in  *)
(* its snapshot, has type note and action update or delete, which is what   *)
(* the drain loop sends to the remote store; every entry a facade call      *)
(* queues is of that kind.                                                  *)
C26_QueueHoldsOnlyDrainable ==
  /\ \A id \in DOMAIN pending :
       /\ pending[id].id = id
       /\ pending[id].type = "note" /\ pending[id].action \in {"update", "delete"}
       /\ Dispatched(pending[id])
  /\ \A s \in DOMAIN drains :
       drains[s].pc = "loop" =>
         \A i \in 1..Len(drains[s].snap) : Dispatched(drains[s].snap[i])
  /\ last.kind = "queue" => Dispatched(last.item)

(* the queue holds an update of one note and a delete of another *)
C26_Witness ==
  /\ \E id \in DOMAIN pending : pending[id].action = "update"
  /\ \E id \in DOMAIN pending : pending[id].action = "delete"

(* C27: a delete in the pending queue stays a delete: the entry for its id  *)
(* is a delete in the next state too, unless this step is a drain's         *)
(* successful replay of a delete of that id.                                *)
C27_QueuedDeleteNotLost ==
  [][\A id \in DOMAIN pending :
       pending[id].action = "delete" =>
         \/ id \in DOMAIN pending' /\ pending'[id].action = "delete"
         \/ /\ last'.kind = "replay" /\ last'.ok /\ last'.id = id
            /\ last'.item.action = "delete"]_vars

----------------------------------------------------------------------------
(* Two accounts on one device.  Signing out sends the dashboard to /auth    *)
(* and unmounts the hook; signing in as `u` mounts it again with that user. *)
(* IndexedDB, which no sign-out clears, and the remote store stay.  Every   *)
(* note belongs to u1, so the other account has nothing to edit: every      *)
(* queue entry was made while u1 was signed in.                             *)

Users == {"u1", "u2"}

SignInAs(u) ==
  /\ user # u
  /\ clock < MaxClock
  /\ clock' = clock + 1
  /\ user' = u
  /\ notes' = <<>>
  /\ folders' = <<>>
  /\ loading' = TRUE
  /\ isSyncing' = FALSE
  /\ hasPendingSync' = FALSE
  /\ calls' = EmptyStore
  /\ drains' = [s \in 1..MaxDrains |-> IdleDrain]
  /\ mount' = [pc |-> "start", nf |-> "none", ff |-> "none"]
  /\ debounced' = debounced
  /\ last' = NoEvent
  /\ UNCHANGED <<online, cachedNotes, cachedFolders, pending, remoteNotes,
                 remoteFolders, nextId>>

NextIdentity ==
  \/ MountCheckPending
  \/ MountLoadCache
  \/ \E o \in {"ok", "err", "offline"} : MountFetchNotes(o)
  \/ \E o \in {"ok", "err", "offline"} : MountFetchFolders(o)
  \/ GoOnline
  \/ GoOffline
  \/ Reload
  \/ ManualSync
  \/ \E u \in Users : SignInAs(u)
  \/ \E s \in 1..MaxDrains, ok \in BOOLEAN : DrainItem(s, ok)
  \/ \E s \in 1..MaxDrains, o \in {"ok", "err", "offline"} : DrainFetch(s, o)
  \/ user = "u1" /\ \E id \in 1..MaxIds, u \in UpdateInputs : UpdateNote(id, u)
  \/ \E id \in 1..MaxIds : SoftDelete(id)
  \/ \E id \in 1..MaxIds : RestoreNote(id)
  \/ \E id \in 1..MaxIds : PermanentDelete(id)
  \/ \E seq \in 1..MaxClock : AfterCache(seq)
  \/ \E seq \in 1..MaxClock, ok \in BOOLEAN : NoteRemote(seq, ok)

SpecIdentity == Init /\ [][NextIdentity]_vars

(* C28: every queue entry having been made under u1, a drain sends an entry *)
(* to the remote store, and an entry leaves the queue, only while u1 is the *)
(* signed-in user.                                                          *)
C28_ReplayUnderCreatingIdentity ==
  [][/\ last'.kind = "replay" => user' = "u1"
     /\ (DOMAIN pending \ DOMAIN pending' # {}) => user' = "u1"
     /\ (last'.kind = "queue") => user' = "u1"]_vars

----------------------------------------------------------------------------
(* The cache hook's clearAllPendingSyncs: store.clear() and                 *)
(* setHasPendingSync(false).  useNotes takes it from the hook and never     *)
(* calls it; here it is called between other operations.                    *)
ClearAllPendingSyncs ==
  /\ mount.pc = "done" /\ ~Busy
  /\ pending # EmptyStore
  /\ pending' = EmptyStore
  /\ hasPendingSync' = FALSE
  /\ debounced' = debounced
  /\ last' = NoEvent
  /\ UNCHANGED <<user, online, clock, notes, folders, loading, isSyncing, cachedNotes,
                 cachedFolders, remoteNotes, remoteFolders, nextId, calls, drains, mount>>

(* clearPendingSync step by step.  Its delete and its read of what remains  *)
(* are requested in one turn (lines 207-212) and IndexedDB runs them in     *)
(* that order, before any later put; setHasPendingSync runs in a later      *)
(* turn, when the read has answered (line 213), and other callbacks run in  *)
(* between.  The frame keeps what the read saw in `mode`.                   *)
ClearRequested(s) ==
  /\ drains[s].pc = "loop"
  /\ online
  /\ LET d == drains[s]
         item == d.snap[d.i]
     IN /\ Dispatched(item)
        /\ remoteNotes' = ReplayRemote(item)
        /\ pending' = ClearPendingSync(pending, item.id)
        /\ drains' = [drains EXCEPT ![s] =
             [d EXCEPT !.pc = "clearing",
                       !.mode = IF HasRemaining(pending') THEN "remaining" ELSE "nothing"]]
        /\ debounced' = debounced
        /\ last' = Event("replay", item.action, item.id, s, TRUE, <<>>, item)
  /\ UNCHANGED <<user, online, clock, notes, folders, loading, isSyncing, hasPendingSync,
                 cachedNotes, cachedFolders, remoteFolders, nextId, calls, mount>>

ClearAnswered(s) ==
  /\ drains[s].pc = "clearing"
  /\ LET d == drains[s]
         synced == d.synced + 1
         atEnd == d.i = Len(d.snap)
     IN /\ hasPendingSync' = (d.mode = "remaining")
        /\ drains' = [drains EXCEPT ![s] =
             IF ~atEnd THEN [d EXCEPT !.pc = "loop", !.i = d.i + 1, !.synced = synced,
                                      !.mode = "none"]
             ELSE IF Reconcile(synced) /\ FetchMode(online) # "done"
                  THEN [d EXCEPT !.pc = "fetch", !.synced = synced, !.mode = FetchMode(online)]
                  ELSE IdleDrain]
        /\ isSyncing' = IF atEnd THEN FALSE ELSE isSyncing
  /\ debounced' = debounced
  /\ last' = NoEvent
  /\ UNCHANGED <<user, online, clock, notes, folders, loading, cachedNotes, cachedFolders,
                 pending, remoteNotes, remoteFolders, nextId, calls, mount>>

NextCache ==
  \/ Next
  \/ ClearAllPendingSyncs
  \/ \E s \in 1..MaxDrains : ClearRequested(s)
  \/ \E s \in 1..MaxDrains : ClearAnswered(s)

SpecCache == Init /\ [][NextCache]_vars

(* no read or write of the pending store is waiting for its answer *)
StoreIdle ==
  /\ mount.pc # "start"
  /\ \A s \in DOMAIN drains : drains[s].pc # "clearing"

(* C29: whenever no operation on the pending store is in flight,            *)
(* hasPendingSync is true exactly when the pending queue is not empty.      *)
C29_FlagTracksQueue ==
  StoreIdle => (hasPendingSync <=> pending # EmptyStore)

----------------------------------------------------------------------------
(* Progress.  The remote store accepts every call that reaches it: a call   *)
(* answered while the client is online succeeds.  The steps                 *)
(* the program takes by itself (the turns of the drain loop, the fetch      *)
(* after it, the steps of the mount) are taken once they can be; the user's *)
(* actions and the connectivity events are not forced.  The user retitles   *)
(* and deletes notes and reloads the page; the sync pill is never clicked.  *)

Accepts == (last'.kind \in {"replay", "settle", "fetch"} /\ online) => last'.ok

NextLive ==
  \/ MountCheckPending
  \/ MountLoadCache
  \/ (\E o \in {"ok", "err", "offline"} : MountFetchNotes(o)) /\ Accepts
  \/ (\E o \in {"ok", "err", "offline"} : MountFetchFolders(o)) /\ Accepts
  \/ GoOnline
  \/ GoOffline
  \/ Reload
  \/ (\E s \in 1..MaxDrains, ok \in BOOLEAN : DrainItem(s, ok)) /\ Accepts
  \/ (\E s \in 1..MaxDrains, o \in {"ok", "err", "offline"} : DrainFetch(s, o)) /\ Accepts
  \/ \E id \in 1..MaxIds : UpdateNote(id, [title |-> "t1"])
  \/ \E id \in 1..MaxIds : PermanentDelete(id)
  \/ \E seq \in 1..MaxClock : AfterCache(seq)
  \/ (\E seq \in 1..MaxClock, ok \in BOOLEAN : NoteRemote(seq, ok)) /\ Accepts
  \/ \E s \in 1..MaxDrains : ClearRequested(s)
  \/ \E s \in 1..MaxDrains : ClearAnswered(s)

(* the steps the program takes by itself *)
ProgramStep ==
  \/ (\E s \in 1..MaxDrains, ok \in BOOLEAN : DrainItem(s, ok)) /\ Accepts
  \/ \E s \in 1..MaxDrains : ClearAnswered(s)
  \/ (\E s \in 1..MaxDrains, o \in {"ok", "err", "offline"} : DrainFetch(s, o)) /\ Accepts
  \/ MountCheckPending
  \/ MountLoadCache
  \/ (\E o \in {"ok", "err", "offline"} : MountFetchNotes(o)) /\ Accepts
  \/ (\E o \in {"ok", "err", "offline"} : MountFetchFolders(o)) /\ Accepts

Fairness == WF_vars(ProgramStep)

SpecLive == Init /\ [][NextLive]_vars /\ Fairness

(* C24: an entry that is in the queue while the client is online is         *)
(* eventually replayed successfully by a drain, unless the client goes      *)
(* offline first; no manual sync is needed.                                 *)
C24_EventuallyReplayed ==
  \A id \in 1..MaxIds :
    (id \in DOMAIN pending /\ online) ~>
      ((last.kind = "replay" /\ last.ok /\ last.id = id) \/ ~online)

----------------------------------------------------------------------------
(* useDebouncedCallback.  The editor calls the debounced function with the  *)
(* text typed; the timer, flush() and cancel() end a burst of calls; the    *)
(* component unmounts.                                                      *)

DebounceArgs == {"a", "b"}

(* lines 39-50: debouncedFn(...args) *)
DebouncedFn(d, arg) ==
  [d EXCEPT !.pendingArgsRef = <<arg>>, !.timeoutRef = TRUE, !.scheduled = <<arg>>,
            !.burst = Append(d.burst, arg), !.n = d.n + 1, !.op = "call"]

(* lines 45-49: the timer's callback *)
TimerCallback(d) ==
  [d EXCEPT !.invoked = d.invoked \o d.scheduled, !.pendingArgsRef = <<>>,
            !.timeoutRef = FALSE, !.scheduled = <<>>, !.burst = <<>>, !.op = "timer"]

(* lines 22-28 *)
Cancel(d) ==
  [d EXCEPT !.timeoutRef = FALSE, !.scheduled = <<>>, !.pendingArgsRef = <<>>,
            !.burst = <<>>, !.op = "cancel"]

(* lines 30-37 *)
Flush(d) ==
  IF d.timeoutRef /\ d.pendingArgsRef # <<>>
  THEN [d EXCEPT !.timeoutRef = FALSE, !.scheduled = <<>>,
                 !.invoked = d.invoked \o d.pendingArgsRef, !.pendingArgsRef = <<>>,
                 !.burst = <<>>, !.op = "flush"]
  ELSE [d EXCEPT !.op = "flush"]

(* lines 58-64: the cleanup clears the timer and nothing else *)
Unmount(d) == [d EXCEPT !.mounted = FALSE, !.scheduled = <<>>, !.op = "unmount"]

DebounceFrame ==
  /\ last' = NoEvent
  /\ UNCHANGED <<user, online, clock, notes, folders, loading, isSyncing, hasPendingSync,
                 cachedNotes, cachedFolders, pending, remoteNotes, remoteFolders, nextId,
                 calls, drains, mount>>

CallDebounced(arg) ==
  /\ debounced.mounted /\ debounced.n < MaxCalls
  /\ debounced' = DebouncedFn(debounced, arg)
  /\ DebounceFrame

TimerExpires ==
  /\ debounced.scheduled # <<>>
  /\ debounced' = TimerCallback(debounced)
  /\ DebounceFrame

CallCancel ==
  /\ debounced.mounted
  /\ debounced' = Cancel(debounced)
  /\ DebounceFrame

CallFlush ==
  /\ debounced.mounted
  /\ debounced' = Flush(debounced)
  /\ DebounceFrame

UnmountEditor ==
  /\ debounced.mounted
  /\ debounced' = Unmount(debounced)
  /\ DebounceFrame

NextDebounce ==
  \/ \E arg \in DebounceArgs : CallDebounced(arg)
  \/ TimerExpires
  \/ CallCancel
  \/ CallFlush
  \/ UnmountEditor

SpecDebounce == Init /\ [][NextDebounce]_vars

(* C30: a call of the debounced function that has been neither delivered    *)
(* nor cancelled always has a timer in flight that will deliver it, also    *)
(* after the component has unmounted; the step that ends a burst by the     *)
(* timer or by flush() invokes the callback exactly once, with the          *)
(* arguments of the burst's last call; and flush() with nothing pending     *)
(* invokes nothing.                                                         *)
C30_NoDebouncedEditDropped ==
  [][/\ debounced'.burst # <<>> => debounced'.scheduled # <<>>
     /\ (debounced'.op \in {"timer", "flush"} /\ debounced.burst # <<>>) =>
          /\ debounced'.invoked = Append(debounced.invoked, debounced.burst[Len(debounced.burst)])
          /\ debounced'.burst = <<>>
     /\ (debounced'.op = "flush" /\ debounced.burst = <<>>) =>
          debounced'.invoked = debounced.invoked
     /\ debounced'.op \in {"call", "cancel", "unmount"} =>
          debounced'.invoked = debounced.invoked]_vars

====
